---------------------------- MODULE Spec2Model ----------------------------
(***************************************************************************)
(* GPU register interface of the emulator core (src/core/hw/gpu.cpp):      *)
(* the MMIO register file with its write-triggered engines (memory fill,   *)
(* display transfer, command-list dispatch) and the tick-driven            *)
(* scanline / frame timing of Update().                                    *)
(***************************************************************************)
EXTENDS Integers, Naturals, Sequences, FiniteSets, TLC

(***************************************************************************)
(* Machine arithmetic.  A 32-bit word is the pair <<high half, low half>>  *)
(* of its 16-bit halves.                                                   *)
(***************************************************************************)
W16 == 65536

Word(hi, lo) == <<hi, lo>>
Hi(w) == w[1]
Lo(w) == w[2]
Words == (0 .. (W16 - 1)) \X (0 .. (W16 - 1))

\* The word of a number below 2^31.
U32(n) == Word(n \div W16, n % W16)

Byte0(w) == Lo(w) % 256
Byte1(w) == Lo(w) \div 256
Byte2(w) == Hi(w) % 256
Byte3(w) == Hi(w) \div 256

\* A store of the pattern in its natural byte order.
bswapNone(w) == Word(Hi(w), Lo(w))

\* bswap32: the four bytes of a 32-bit word in reverse order.
bswap32(w) == Word(Byte0(w) * 256 + Byte1(w), Byte2(w) * 256 + Byte3(w))

\* w << 3, in 32 bits.
Shl3(w) == Word((Hi(w) * 8 + (Lo(w) * 8) \div W16) % W16, (Lo(w) * 8) % W16)

\* BitField<pos, bits>::Value() of a register word, for a field inside one half.
BitField(w, pos, bits) ==
    IF pos >= 16 THEN (Hi(w) \div (2 ^ (pos - 16))) % (2 ^ bits)
    ELSE (Lo(w) \div (2 ^ pos)) % (2 ^ bits)

(***************************************************************************)
(* Register layout (struct Regs of core/hw/gpu.h, word indices)            *)
(***************************************************************************)
BASE == 519045120                 \* 0x1EF00000
NumIds == 4096                    \* Regs::NumIds(): 0x1000 words

MEMORY_FILL_CONFIG == 4           \* memory_fill_config[0], 4 words per unit
FillStartIdx(u) == MEMORY_FILL_CONFIG + 4 * u
FillEndIdx(u)   == MEMORY_FILL_CONFIG + 4 * u + 1
FillSizeIdx(u)  == MEMORY_FILL_CONFIG + 4 * u + 2
FillValueIdx(u) == MEMORY_FILL_CONFIG + 4 * u + 3

FRAMEBUFFER_TOP_SIZE == 279       \* framebuffer_config[0].size: width | height << 16
FRAMEBUFFER_SUB_SIZE == 343       \* framebuffer_config[1].size
DT_INPUT_ADDRESS  == 768          \* display_transfer_config, 0x300
DT_OUTPUT_ADDRESS == 769
DT_OUTPUT_SIZE    == 770          \* output_width | output_height << 16
DT_INPUT_SIZE     == 771          \* input_width | input_height << 16
DT_FLAGS          == 772          \* input_format bits 8..10, output_format bits 12..14
DT_TRIGGER        == 774
CP_SIZE           == 1592         \* command_processor_config, 0x638
CP_ADDRESS        == 1594
CP_TRIGGER        == 1596
PLAIN_REG         == 0            \* a register no handler is bound to
LAST_REG          == 4095         \* the last valid index

RGBA8 == 0                        \* Regs::PixelFormat
RGB8  == 1

\* The register words the model keeps; every other valid word behaves as PLAIN_REG.
RegIds ==
    {PLAIN_REG, LAST_REG, FRAMEBUFFER_TOP_SIZE, FRAMEBUFFER_SUB_SIZE,
     DT_INPUT_ADDRESS, DT_OUTPUT_ADDRESS, DT_OUTPUT_SIZE, DT_INPUT_SIZE, DT_FLAGS,
     DT_TRIGGER, CP_SIZE, CP_ADDRESS, CP_TRIGGER}
    \cup {FillStartIdx(u) : u \in {0, 1}} \cup {FillEndIdx(u) : u \in {0, 1}}
    \cup {FillSizeIdx(u) : u \in {0, 1}} \cup {FillValueIdx(u) : u \in {0, 1}}

\* Regs::DecodeAddressRegister: address registers hold the physical address / 8.
DecodeAddressRegister(r) == Shl3(r)

\* framebuffer_config[0].height, the high half of the size word
FramebufferHeight(regs) == BitField(regs[FRAMEBUFFER_TOP_SIZE], 16, 16)

(***************************************************************************)
(* Guest memory behind the address translation collaborator                *)
(***************************************************************************)
MemBlocks == 4                    \* mapped guest memory, in 8-byte blocks
MemBase == 8                      \* first mapped physical address
MemSize == 8 * MemBlocks
MemAddrs == MemBase .. (MemBase + MemSize - 1)

\* Memory::GetPointer(Memory::PhysicalToVirtualAddress(p)): the host pointer of a
\* mapped physical address (taken to be the address itself), or 0 for none.
GetPointer(p) == IF Hi(p) = 0 /\ Lo(p) \in MemAddrs THEN Lo(p) ELSE 0

\* Every byte of [ptr, ptr + n) is backed by mapped memory.
Mapped(ptr, n) == ptr \in MemAddrs /\ (ptr + n - 1) \in MemAddrs

\* *(u32*)ptr = v on the little-endian host.
StoreWord(m, ptr, v) ==
    [m EXCEPT ![ptr] = Byte0(v), ![ptr + 1] = Byte1(v),
              ![ptr + 2] = Byte2(v), ![ptr + 3] = Byte3(v)]

LoadWord(m, ptr) == Word(m[ptr + 3] * 256 + m[ptr + 2], m[ptr + 1] * 256 + m[ptr])

VARIABLES
    g_regs,              \* Regs g_regs, by word index
    mem,                 \* guest memory, by physical address
    g_cur_line,          \* current vertical screen line
    g_last_line_ticks,   \* CPU tick count from last vertical screen line
    g_last_frame_ticks,  \* CPU tick count from last frame
    kFrameCycles,
    kFrameTicks,
    ticks,               \* Core::g_app_core->GetTicks()
    var,                 \* the caller's output variable of the last Read
    call,                \* the operation that ran last and its arguments
    errors,              \* number of ERROR_LOG lines of the last operation
    events,              \* collaborator calls and DEBUG_LOG lines of the last operation
    fatal,               \* the process died (invalid access, division by zero)
    nops,                \* number of operations run so far
    pdc0_total,          \* PDC0 interrupts signalled so far
    pdc1_total,          \* PDC1 interrupts signalled so far
    swap_total           \* SwapBuffers() calls so far

vars == <<g_regs, mem, g_cur_line, g_last_line_ticks, g_last_frame_ticks,
          kFrameCycles, kFrameTicks, ticks, var, call, errors, events, fatal,
          nops, pdc0_total, pdc1_total, swap_total>>

timing == <<g_cur_line, g_last_line_ticks, g_last_frame_ticks, kFrameCycles,
            kFrameTicks, ticks, pdc0_total, pdc1_total, swap_total>>

Call(op, addr, width, data, resched) ==
    [op |-> op, addr |-> addr, width |-> width, data |-> data, resched |-> resched]

Result(m, f, e, ev) == [mem |-> m, fatal |-> f, errors |-> e, events |-> ev]

(***************************************************************************)
(* Memory fill (Write, case memory_fill_config[u].value)                   *)
(***************************************************************************)
RECURSIVE FillLoop(_, _, _, _)
\* for (u32* ptr = start; ptr < end; ++ptr) *ptr = bswap32(config.value);
\* a store through a pointer that is not backed by memory kills the process.
FillLoop(m, ptr, end, value) ==
    IF ~(ptr < end) THEN [mem |-> m, fatal |-> FALSE]
    ELSE IF ~Mapped(ptr, 4) THEN [mem |-> m, fatal |-> TRUE]
    ELSE FillLoop(StoreWord(m, ptr, bswap32(value)), ptr + 4, end, value)

\* Every fill taken for a fill of unit 0.
IsSecondFillerNever(index) == 0

\* is_second_filler = (index != GPU_REG_INDEX(memory_fill_config[0].value))
IsSecondFiller(index) == IF index # FillValueIdx(0) THEN 1 ELSE 0

\* if (config.address_start)
FillEnabled(regs, u) == regs[FillStartIdx(u)] # Word(0, 0)

MemoryFill(regs, m, index) ==
    LET u     == IsSecondFiller(index)
        start == GetPointer(DecodeAddressRegister(regs[FillStartIdx(u)]))
        end   == GetPointer(DecodeAddressRegister(regs[FillEndIdx(u)]))
    IN  IF FillEnabled(regs, u)
        THEN LET r == FillLoop(m, start, end, regs[FillValueIdx(u)])
             IN  Result(r.mem, r.fatal, 0,
                        IF r.fatal THEN <<>> ELSE <<<<"MemoryFill", u>>>>)
        ELSE Result(m, FALSE, 0, <<>>)

(***************************************************************************)
(* Display transfer (Write, case display_transfer_config.trigger)          *)
(***************************************************************************)
OutputWidth(regs)  == BitField(regs[DT_OUTPUT_SIZE], 0, 16)
OutputHeight(regs) == BitField(regs[DT_OUTPUT_SIZE], 16, 16)
InputWidth(regs)   == BitField(regs[DT_INPUT_SIZE], 0, 16)
\* The input format read from the lowest bits of the flags.
InputFormatLowBits(regs) == BitField(regs[DT_FLAGS], 0, 3)

InputFormat(regs)  == BitField(regs[DT_FLAGS], 8, 3)
\* The output format read from the input format's bits.
OutputFormatFromInputBits(regs) == BitField(regs[DT_FLAGS], 8, 3)

OutputFormat(regs) == BitField(regs[DT_FLAGS], 12, 3)

\* A source walked with the destination's three bytes per pixel.
SrcOffsetPacked(regs, x, y) == x * 3 + y * InputWidth(regs) * 3

\* source_pointer + x * 4 + y * config.input_width * 4
SrcOffset(regs, x, y) == x * 4 + y * InputWidth(regs) * 4
\* dest_pointer + x * 3 + y * config.output_width * 3
DstOffset(regs, x, y) == x * 3 + y * OutputWidth(regs) * 3

\* A pointer derived from a failed translation is backed by nothing.
Backed(base, off, n) == base # 0 /\ Mapped(base + off, n)

RECURSIVE TransferLoop(_, _, _, _, _, _)
\* The pixel loops, pixel k = y * output_width + x, rows outermost.
TransferLoop(regs, m, errs, k, sp, dp) ==
    LET ow     == OutputWidth(regs)
        x      == k % ow
        y      == k \div ow
        srcptr == sp + SrcOffset(regs, x, y)
        dstptr == dp + DstOffset(regs, x, y)
        known  == InputFormat(regs) = RGBA8
    IN  IF k >= ow * OutputHeight(regs)
        THEN [mem |-> m, fatal |-> FALSE, errors |-> errs]
        ELSE IF known /\ ~Backed(sp, SrcOffset(regs, x, y), 4)
        THEN [mem |-> m, fatal |-> TRUE, errors |-> errs]
        ELSE LET r  == IF known THEN m[srcptr] ELSE 0
                 g  == IF known THEN m[srcptr + 1] ELSE 0
                 b  == IF known THEN m[srcptr + 2] ELSE 0
                 e1 == IF known THEN errs ELSE errs + 1
             IN  IF OutputFormat(regs) = RGB8
                 THEN IF ~Backed(dp, DstOffset(regs, x, y), 3)
                      THEN [mem |-> m, fatal |-> TRUE, errors |-> e1]
                      ELSE TransferLoop(regs,
                               [m EXCEPT ![dstptr] = r, ![dstptr + 1] = g,
                                         ![dstptr + 2] = b],
                               e1, k + 1, sp, dp)
                 ELSE TransferLoop(regs, m, e1 + 1, k + 1, sp, dp)

\* A handler that runs whatever the trigger word holds.
TriggerAlways(word) == TRUE

\* if (config.trigger & 1)
TriggerSet(word) == BitField(word, 0, 1) = 1

DisplayTransfer(regs, m) ==
    LET sp == GetPointer(DecodeAddressRegister(regs[DT_INPUT_ADDRESS]))
        dp == GetPointer(DecodeAddressRegister(regs[DT_OUTPUT_ADDRESS]))
    IN  IF TriggerSet(regs[DT_TRIGGER])
        THEN LET r == TransferLoop(regs, m, 0, 0, sp, dp)
             IN  Result(r.mem, r.fatal, r.errors,
                        IF r.fatal THEN <<>> ELSE <<<<"DisplayTriggerTransfer">>>>)
        ELSE Result(m, FALSE, 0, <<>>)

(***************************************************************************)
(* Command dispatch (Write, case command_processor_config.trigger)         *)
(***************************************************************************)
\* The size field passed on as it is.
CommandSizeUnshifted(regs) == regs[CP_SIZE]

\* u32 size = config.size << 3;
CommandSize(regs) == Shl3(regs[CP_SIZE])

CommandDispatch(regs, m) ==
    LET buffer == GetPointer(DecodeAddressRegister(regs[CP_ADDRESS]))
    IN  IF TriggerSet(regs[CP_TRIGGER])
        THEN Result(m, FALSE, 0,
                    <<<<"ProcessCommandList", buffer, CommandSize(regs)>>>>)
        ELSE Result(m, FALSE, 0, <<>>)

(***************************************************************************)
(* Read<T> and Write<T>                                                    *)
(***************************************************************************)
\* u32 addr = raw_addr - 0x1EF00000; u32 index = addr / 4;
\* (the quotient of a 32-bit difference by 4 is the difference's quotient modulo 2^30)
RegIndex(raw_addr) == ((raw_addr - BASE) \div 4) % 1073741824

\* A check that forgets the access width.
RejectedRangeOnly(raw_addr, width) == RegIndex(raw_addr) >= NumIds

\* index >= Regs::NumIds() || !std::is_same<T,u32>::value
Rejected(raw_addr, width) == RegIndex(raw_addr) >= NumIds \/ width # 32

\* A store that keeps only the low half of the word.
StoredLow16(data) == Word(0, Lo(data))

\* g_regs[index] = static_cast<u32>(data); data is a u32 where this runs
Stored(data) == Word(Hi(data), Lo(data))

\* A switch that runs a unit's fill on a write to any of the unit's four words.
DispatchOnWholeFillUnit(regs, m, index) ==
    IF index \in FillStartIdx(0) .. FillValueIdx(0) THEN MemoryFill(regs, m, FillValueIdx(0))
    ELSE IF index \in FillStartIdx(1) .. FillValueIdx(1)
    THEN MemoryFill(regs, m, FillValueIdx(1))
    ELSE IF index = DT_TRIGGER THEN DisplayTransfer(regs, m)
    ELSE IF index = CP_TRIGGER THEN CommandDispatch(regs, m)
    ELSE Result(m, FALSE, 0, <<>>)

\* The switch (index) of Write: the handler bound to the written index.
Dispatch(regs, m, index) ==
    IF index = FillValueIdx(0) \/ index = FillValueIdx(1)
    THEN MemoryFill(regs, m, index)
    ELSE IF index = DT_TRIGGER THEN DisplayTransfer(regs, m)
    ELSE IF index = CP_TRIGGER THEN CommandDispatch(regs, m)
    ELSE Result(m, FALSE, 0, <<>>)

Read(raw_addr, width) ==
    /\ ~fatal
    /\ nops' = nops + 1
    /\ call' = Call("Read", raw_addr, width, Word(0, 0), FALSE)
    /\ events' = <<>>
    /\ IF Rejected(raw_addr, width)
       THEN errors' = 1 /\ var' = var
       ELSE errors' = 0 /\ var' = g_regs[RegIndex(raw_addr)]
    /\ UNCHANGED <<g_regs, mem, fatal, timing>>

\* A register store that restarts the scanline counter and runs no handler.
WriteRestartingLine(raw_addr, width, data) ==
    /\ ~fatal
    /\ nops' = nops + 1
    /\ call' = Call("Write", raw_addr, width, data, FALSE)
    /\ errors' = IF Rejected(raw_addr, width) THEN 1 ELSE 0
    /\ events' = <<>>
    /\ g_regs' = IF Rejected(raw_addr, width) THEN g_regs
                 ELSE [g_regs EXCEPT ![RegIndex(raw_addr)] = Stored(data)]
    /\ g_cur_line' = 0
    /\ UNCHANGED <<mem, fatal, var, g_last_line_ticks, g_last_frame_ticks, kFrameCycles,
                   kFrameTicks, ticks, pdc0_total, pdc1_total, swap_total>>

Write(raw_addr, width, data) ==
    /\ ~fatal
    /\ nops' = nops + 1
    /\ call' = Call("Write", raw_addr, width, data, FALSE)
    /\ IF Rejected(raw_addr, width)
       THEN /\ errors' = 1
            /\ events' = <<>>
            /\ UNCHANGED <<g_regs, mem, fatal>>
       ELSE LET index == RegIndex(raw_addr)
                regs  == [g_regs EXCEPT ![index] = Stored(data)]
                r     == Dispatch(regs, mem, index)
            IN  /\ g_regs' = regs
                /\ mem' = r.mem
                /\ fatal' = r.fatal
                /\ errors' = r.errors
                /\ events' = r.events
    /\ UNCHANGED <<var, timing>>

(***************************************************************************)
(* Update and Init                                                         *)
(***************************************************************************)
\* A swap as soon as a whole frame period has elapsed.
SwapDueAtPeriod(current_ticks, last, period) == current_ticks - last >= period

\* (current_ticks - g_last_frame_ticks) > GPU::kFrameTicks, in u64; the tick
\* count never decreases, so the difference does not wrap.
SwapDue(current_ticks, last, period) == current_ticks - last > period

\* A line only after more than a line period.
LineDueStrict(current_ticks, last, period, height) ==
    current_ticks - last > period \div height

\* (current_ticks - g_last_line_ticks) >= GPU::kFrameTicks / framebuffer_top.height
LineDue(current_ticks, last, period, height) ==
    current_ticks - last >= period \div height

\* g_cur_line >= framebuffer_top.height
FrameDue(line, height) == line >= height

\* Line synchronisation on every call.
SynchronizeAlways(resched) == TRUE

\* if (HLE::g_reschedule)
Synchronize(resched) == resched

\* Update(), entered `elapsed` ticks after the previous operation, with
\* HLE::g_reschedule = resched.  The division by a zero height kills the process.
\* g_cur_line stays below 2^16 + 1 (the height is a 16-bit field), so its
\* increment does not wrap.
Update(elapsed, resched) ==
    LET current_ticks == ticks + elapsed
        height        == FramebufferHeight(g_regs)
        swap          == SwapDue(current_ticks, g_last_frame_ticks, kFrameTicks)
        sync          == Synchronize(resched)
        divzero       == sync /\ height = 0
        line          == sync /\ height # 0
                         /\ LineDue(current_ticks, g_last_line_ticks, kFrameTicks, height)
        cur1          == IF line THEN g_cur_line + 1 ELSE g_cur_line
        frame         == sync /\ height # 0 /\ FrameDue(cur1, height)
    IN  /\ ~fatal
        /\ nops' = nops + 1
        /\ ticks' = current_ticks
        /\ call' = Call("Update", 0, 0, U32(elapsed), resched)
        /\ errors' = 0
        /\ g_last_frame_ticks' = IF swap THEN current_ticks ELSE g_last_frame_ticks
        /\ swap_total' = IF swap THEN swap_total + 1 ELSE swap_total
        /\ fatal' = divzero
        /\ g_last_line_ticks' = IF line THEN current_ticks ELSE g_last_line_ticks
        /\ g_cur_line' = IF frame THEN 0 ELSE cur1
        /\ pdc0_total' = IF line THEN pdc0_total + 1 ELSE pdc0_total
        /\ pdc1_total' = IF frame THEN pdc1_total + 1 ELSE pdc1_total
        /\ events' = (IF swap THEN <<<<"SwapBuffers">>>> ELSE <<>>)
                     \o (IF line THEN <<<<"PDC0">>>> ELSE <<>>)
                     \o (IF frame THEN <<<<"PDC1">>>> ELSE <<>>)
        /\ UNCHANGED <<g_regs, mem, var, kFrameCycles, kFrameTicks>>

\* Guest memory at start-up: every byte distinct and non-zero.
InitMem == [a \in MemAddrs |-> 16 + (a - MemBase)]

\* framebuffer_top.width = 240; framebuffer_top.height = 400;
DefaultTopSize == Word(400, 240)

\* framebuffer_sub.width = 240; framebuffer_sub.height = 320;
DefaultSubSize == Word(320, 240)

\* g_regs after Init(): zero-initialised storage with the default framebuffer
\* geometry.
InitRegs == [i \in RegIds |-> IF i = FRAMEBUFFER_TOP_SIZE THEN DefaultTopSize
                          ELSE IF i = FRAMEBUFFER_SUB_SIZE THEN DefaultSubSize
                          ELSE Word(0, 0)]

\* InitRegs with the words of `cfg` stored by the guest (stores to registers that
\* no handler is bound to).
Programmed(cfg) == [i \in RegIds |-> IF i \in DOMAIN cfg THEN cfg[i] ELSE InitRegs[i]]

\* kFrameCycles = 268123480 / Settings::values.gpu_refresh_rate; the division by
\* a zero rate kills the process (the value is then never used).
FrameCycles(refresh_rate) ==
    IF refresh_rate = 0 THEN 0 ELSE 268123480 \div refresh_rate

\* A frame period rounded to the nearest tick.
FrameTicksRounded(cycles) == (cycles + 1) \div 3

\* kFrameTicks = kFrameCycles / 3;
FrameTicks(cycles) == cycles \div 3

\* Init() with Settings::values.gpu_refresh_rate = refresh_rate and
\* GetTicks() = t0, the guest having programmed `regs` since.
InitState(refresh_rate, t0, regs) ==
    /\ kFrameCycles = FrameCycles(refresh_rate)
    /\ kFrameTicks = FrameTicks(FrameCycles(refresh_rate))
    /\ g_cur_line = 0
    /\ g_last_frame_ticks = t0
    /\ g_last_line_ticks = t0
    /\ ticks = t0
    /\ g_regs = regs
    /\ mem = InitMem
    /\ var = Word(0, 0)
    /\ call = Call("Init", 0, 0, U32(refresh_rate), FALSE)
    /\ errors = 0
    /\ events = <<>>
    /\ fatal = (refresh_rate = 0)
    /\ nops = 0
    /\ pdc0_total = 0
    /\ pdc1_total = 0
    /\ swap_total = 0

AddrOf(index) == BASE + 4 * index

(***************************************************************************)
(* Spec: the register file under guest accesses of every kind              *)
(***************************************************************************)
MaxOps == 3                       \* operations per run of Spec

\* A fill pattern with four distinct bytes, 0xA1B2C3D4.
FillWord == Word(161 * 256 + 178, 195 * 256 + 212)

Data == {U32(0), U32(1), FillWord}

\* 32-bit accesses inside the register range (one of them misaligned).
Accepted ==
    {<<AddrOf(i), 32>> : i \in {PLAIN_REG, LAST_REG, FillStartIdx(0), FillValueIdx(0),
                                FillValueIdx(1), DT_TRIGGER, CP_TRIGGER, CP_SIZE,
                                FRAMEBUFFER_TOP_SIZE}}
    \cup {<<AddrOf(FillValueIdx(0)) + 2, 32>>}

\* Accesses outside the register range or of another width.
Refused ==
    {<<AddrOf(NumIds), 32>>, <<BASE - 4, 32>>, <<AddrOf(FillValueIdx(0)), 16>>,
     <<AddrOf(FillValueIdx(1)), 64>>, <<AddrOf(DT_TRIGGER), 8>>,
     <<AddrOf(CP_TRIGGER), 16>>}

Accesses == Accepted \cup Refused

\* Tick steps between operations: none, and one more than a frame at 60 Hz.
Elapsed == {0, 1489575}

\* Fill ranges the guest has programmed before the run: none, or [8, 24) for
\* unit 0 and [16, 32) for unit 1.
FillSetups ==
    {Programmed(c0 @@ c1) :
        c0 \in {(FillStartIdx(0) :> U32(0) @@ FillEndIdx(0) :> U32(0)),
                (FillStartIdx(0) :> U32(1) @@ FillEndIdx(0) :> U32(3))},
        c1 \in {(FillStartIdx(1) :> U32(0) @@ FillEndIdx(1) :> U32(0)),
                (FillStartIdx(1) :> U32(2) @@ FillEndIdx(1) :> U32(4))}}

Init == \E regs \in FillSetups : InitState(60, 0, regs)

GuestRead == nops < MaxOps /\ \E a \in Accesses : Read(a[1], a[2])

GuestWrite == nops < MaxOps /\ \E a \in Accesses, d \in Data : Write(a[1], a[2], d)

Advance == nops < MaxOps /\ \E e \in Elapsed, rs \in BOOLEAN : Update(e, rs)

Next == GuestRead \/ GuestWrite \/ Advance

Spec == Init /\ [][Next]_vars

TypeOK ==
    /\ \A i \in RegIds : g_regs[i] \in Words
    /\ \A a \in MemAddrs : mem[a] \in 0 .. 255
    /\ fatal \in BOOLEAN
    /\ g_cur_line \in 0 .. W16

(***************************************************************************)
(* Vocabulary of the properties                                            *)
(***************************************************************************)
Zero == Word(0, 0)

\* The step just taken ran the operation recorded in call'.
Ran(op) == nops' = nops + 1 /\ call'.op = op

\* The access recorded in c is a 32-bit access inside the register range.
InRange(c) == ((c.addr - BASE) \div 4) % 1073741824 < NumIds /\ c.width = 32
IndexOf(c) == ((c.addr - BASE) \div 4) % 1073741824

TriggerIds == {FillValueIdx(0), FillValueIdx(1), DT_TRIGGER, CP_TRIGGER}

\* The word pointers of unit u's fill range as the registers `regs` give it.
FillRange(regs, u) ==
    LET start == Lo(Shl3(regs[FillStartIdx(u)]))
        end   == Lo(Shl3(regs[FillEndIdx(u)]))
    IN  {p \in MemAddrs : start <= p /\ p < end /\ (p - start) % 4 = 0}

\* Both ends of unit u's range translate to host memory.
FillResolves(regs, u) ==
    /\ Hi(Shl3(regs[FillStartIdx(u)])) = 0 /\ Lo(Shl3(regs[FillStartIdx(u)])) \in MemAddrs
    /\ Hi(Shl3(regs[FillEndIdx(u)])) = 0 /\ Lo(Shl3(regs[FillEndIdx(u)])) \in MemAddrs

(***************************************************************************)
(* C1: a 32-bit write of v to a valid register followed immediately by a   *)
(* 32-bit read of the same address returns v, whether or not the write     *)
(* fired a handler.                                                        *)
(***************************************************************************)
C1_RoundTrip ==
    [][(call.op = "Write" /\ InRange(call) /\ Ran("Read") /\ InRange(call')
        /\ call'.addr = call.addr) => var' = call.data]_vars

\* A read of fill unit 0's value register returns the pattern whose write ran the fill.
C1_Witness ==
    /\ call.op = "Read" /\ call.addr = AddrOf(FillValueIdx(0)) /\ call.width = 32
    /\ nops = 2
    /\ var = FillWord
    /\ mem # InitMem

(***************************************************************************)
(* C2: a read or write outside the register range, or of a width other     *)
(* than 32 bits, changes no register, memory, timing or output variable,   *)
(* fires no handler and logs exactly one error.                            *)
(***************************************************************************)
C2_RejectedAccessInert ==
    [][((Ran("Read") \/ Ran("Write")) /\ ~InRange(call'))
        => /\ g_regs' = g_regs
           /\ mem' = mem
           /\ timing' = timing
           /\ var' = var
           /\ fatal' = fatal
           /\ events' = <<>>
           /\ errors' = 1]_vars

\* A 16-bit write to the value register of an enabled fill unit was refused.
C2_Witness ==
    /\ call.op = "Write" /\ call.addr = AddrOf(FillValueIdx(0)) /\ call.width = 16
    /\ call.data = FillWord
    /\ g_regs[FillStartIdx(0)] # Zero
    /\ errors = 1
    /\ mem = InitMem

(***************************************************************************)
(* C3 as stated: writing 0 to any of the four trigger registers writes no  *)
(* guest memory and invokes nothing.                                       *)
(***************************************************************************)
C3_ZeroWriteFiresNothing ==
    [][(Ran("Write") /\ InRange(call') /\ IndexOf(call') \in TriggerIds
        /\ call'.data = Zero) => (mem' = mem /\ events' = <<>>)]_vars

(***************************************************************************)
(* C3 amended: writing 0 to the display-transfer or command-processor      *)
(* trigger fires nothing; writing 0 to a fill unit's value register fires  *)
(* nothing only while that unit's start address register is 0, and         *)
(* otherwise runs the fill with pattern 0.                                 *)
(***************************************************************************)
C3_ZeroWriteFiresOnlyEnabledFill ==
    [][(Ran("Write") /\ InRange(call') /\ IndexOf(call') \in TriggerIds
        /\ call'.data = Zero)
        => LET i == IndexOf(call')
               u == IF i = FillValueIdx(1) THEN 1 ELSE 0
           IN  IF i \in {FillValueIdx(0), FillValueIdx(1)}
                  /\ g_regs'[FillStartIdx(u)] # Zero
               THEN \/ fatal'
                    \/ /\ events' = <<<<"MemoryFill", u>>>>
                       /\ FillResolves(g_regs', u)
                            => \A p \in FillRange(g_regs', u) : LoadWord(mem', p) = Zero
               ELSE mem' = mem /\ events' = <<>> /\ ~fatal']_vars

\* Writing 0 to the value register of fill unit 0, whose start address is set,
\* cleared its range.
C3_Witness ==
    /\ call.op = "Write" /\ call.addr = AddrOf(FillValueIdx(0)) /\ call.width = 32
    /\ call.data = Zero
    /\ g_regs[FillStartIdx(0)] = U32(1)
    /\ events = <<<<"MemoryFill", 0>>>>
    /\ \A p \in FillRange(g_regs, 0) : LoadWord(mem, p) = Zero
    /\ mem # InitMem

(***************************************************************************)
(* SpecFill: the two memory-fill units                                     *)
(***************************************************************************)
MaxFillOps == 2                   \* operations per run of SpecFill

\* A second pattern, 0x00000102.
OtherWord == Word(0, 258)

\* Start and end registers of a unit: unset, inside the mapped memory ([8, 40)
\* at the base bound), or past it.
FillStarts == {U32(a) : a \in {0, 1, 2, 3, MemBlocks + 2}}
FillEnds == {U32(a) : a \in {1, 3, 4, MemBlocks + 1}}
FillValues == {Zero, FillWord, OtherWord}

FillConfigs ==
    {Programmed(FillStartIdx(0) :> s0 @@ FillEndIdx(0) :> e0
                @@ FillStartIdx(1) :> s1 @@ FillEndIdx(1) :> e1) :
        s0 \in FillStarts, e0 \in FillEnds, s1 \in FillStarts, e1 \in FillEnds}

InitFill == \E regs \in FillConfigs : InitState(60, 0, regs)

\* The guest writes the value register of a unit.
FillTrigger ==
    nops < MaxFillOps /\ \E u \in {0, 1}, v \in FillValues : Write(AddrOf(FillValueIdx(u)), 32, v)

\* The guest moves the start of a unit's range.
FillProgram ==
    nops < MaxFillOps /\ \E u \in {0, 1}, a \in FillStarts : Write(AddrOf(FillStartIdx(u)), 32, a)

\* The guest writes the size register of a unit.
FillResize ==
    nops < MaxFillOps
    /\ \E u \in {0, 1}, sz \in {U32(1), FillWord} : Write(AddrOf(FillSizeIdx(u)), 32, sz)

NextFill == FillTrigger \/ FillProgram \/ FillResize

SpecFill == InitFill /\ [][NextFill]_vars

\* byte_reverse of a 32-bit word given by its halves.
ByteReverse(w) ==
    Word((Lo(w) % 256) * 256 + Lo(w) \div 256, (Hi(w) % 256) * 256 + Hi(w) \div 256)

(***************************************************************************)
(* C4: a 32-bit write of V to the value register of fill unit u, with unit *)
(* u's start address non-zero and start < end (both translating to host    *)
(* memory), leaves every word of unit u's own [start, end) equal to        *)
(* byte_reverse(V); with start address 0 the write changes no memory.      *)
(***************************************************************************)
C4_FillStoresReversedValue ==
    [][\A u \in {0, 1} :
        (Ran("Write") /\ InRange(call') /\ IndexOf(call') = FillValueIdx(u))
        => IF g_regs'[FillStartIdx(u)] = Zero
           THEN mem' = mem /\ ~fatal'
           ELSE (FillResolves(g_regs', u) /\ FillRange(g_regs', u) # {})
                => /\ ~fatal'
                   /\ \A p \in FillRange(g_regs', u) :
                        LoadWord(mem', p) = ByteReverse(call'.data)]_vars

\* Unit 1 filled its own range [16, 32) while unit 0 is set up for [8, 24).
C4_Witness ==
    /\ call.op = "Write" /\ call.addr = AddrOf(FillValueIdx(1)) /\ call.width = 32
    /\ call.data = FillWord
    /\ g_regs[FillStartIdx(1)] = U32(2) /\ g_regs[FillEndIdx(1)] = U32(4)
    /\ g_regs[FillStartIdx(0)] = U32(1) /\ g_regs[FillEndIdx(0)] = U32(3)
    /\ \A p \in {16, 20, 24, 28} : LoadWord(mem, p) = Word(212 * 256 + 195, 178 * 256 + 161)
    /\ \A a \in 8 .. 15 : mem[a] = InitMem[a]

(***************************************************************************)
(* SpecTransfer: the display transfer engine                               *)
(***************************************************************************)
MaxTransferOps == 2               \* operations per run of SpecTransfer
MaxDim == 2                       \* largest output width and height

\* display_transfer_config.flags for an input and an output format.
Flags(ifmt, ofmt) == Word(0, ifmt * 256 + ofmt * 4096)

TransferConfigs ==
    {Programmed(DT_INPUT_ADDRESS :> U32(ia) @@ DT_OUTPUT_ADDRESS :> U32(oa)
                @@ DT_OUTPUT_SIZE :> Word(oh, ow) @@ DT_INPUT_SIZE :> Word(MaxDim, iw)
                @@ DT_FLAGS :> Flags(f[1], f[2])) :
        ia \in {0, 1, 3}, oa \in {0, 1, 2, 3, 4}, ow \in 0 .. MaxDim, oh \in 0 .. MaxDim,
        iw \in 1 .. (MaxDim + 1), f \in {RGBA8, RGB8} \X {RGB8, RGBA8, 2}}

InitTransfer == \E regs \in TransferConfigs : InitState(60, 0, regs)

\* The guest writes the trigger register.
TransferTrigger ==
    nops < MaxTransferOps /\ \E d \in 0 .. 3 : Write(AddrOf(DT_TRIGGER), 32, U32(d))

\* The guest changes the formats.
TransferReformat ==
    nops < MaxTransferOps
    /\ \E f \in {RGBA8, RGB8} \X {RGB8, RGBA8} : Write(AddrOf(DT_FLAGS), 32, Flags(f[1], f[2]))

NextTransfer == TransferTrigger \/ TransferReformat

SpecTransfer == InitTransfer /\ [][NextTransfer]_vars

\* The transfer's operands as the register words `regs` hold them.
TOw(regs) == Lo(regs[DT_OUTPUT_SIZE])
TOh(regs) == Hi(regs[DT_OUTPUT_SIZE])
TIw(regs) == Lo(regs[DT_INPUT_SIZE])
TIfmt(regs) == (Lo(regs[DT_FLAGS]) \div 256) % 8
TOfmt(regs) == (Lo(regs[DT_FLAGS]) \div 4096) % 8
TSrc(regs) == Lo(Shl3(regs[DT_INPUT_ADDRESS]))
TDst(regs) == Lo(Shl3(regs[DT_OUTPUT_ADDRESS]))
Pixels(regs) == (0 .. (TOw(regs) - 1)) \X (0 .. (TOh(regs) - 1))
SrcAt(regs, px) == TSrc(regs) + px[1] * 4 + px[2] * TIw(regs) * 4
DstAt(regs, px) == TDst(regs) + px[1] * 3 + px[2] * TOw(regs) * 3
SrcBytes(regs, n) == {SrcAt(regs, px) + c : px \in Pixels(regs), c \in 0 .. (n - 1)}
DstBytes(regs) == {DstAt(regs, px) + c : px \in Pixels(regs), c \in 0 .. 2}

\* The step just taken wrote the display-transfer trigger with bit 0 set.
Triggered ==
    /\ Ran("Write") /\ InRange(call') /\ IndexOf(call') = DT_TRIGGER
    /\ Lo(call'.data) % 2 = 1

\* The source address translates and every source pixel read lies in host memory.
SourceBacked(regs) ==
    /\ Hi(Shl3(regs[DT_INPUT_ADDRESS])) = 0 /\ TSrc(regs) \in MemAddrs
    /\ SrcBytes(regs, 4) \subseteq MemAddrs

\* The same for the destination pixels written.
DestBacked(regs) ==
    /\ Hi(Shl3(regs[DT_OUTPUT_ADDRESS])) = 0 /\ TDst(regs) \in MemAddrs
    /\ DstBytes(regs) \subseteq MemAddrs

(***************************************************************************)
(* C5 as stated: after an RGBA8 -> RGB8 transfer over buffers in host      *)
(* memory, the three bytes of every destination pixel equal bytes 0, 1, 2  *)
(* of its source pixel (as they were before or as they are after the       *)
(* transfer), and no other byte is written.                                *)
(***************************************************************************)
C5_TransferCopiesPixels ==
    [][(Triggered /\ TIfmt(g_regs') = RGBA8 /\ TOfmt(g_regs') = RGB8
        /\ SourceBacked(g_regs') /\ DestBacked(g_regs'))
        => /\ \/ \A px \in Pixels(g_regs'), c \in 0 .. 2 :
                    mem'[DstAt(g_regs', px) + c] = mem[SrcAt(g_regs', px) + c]
              \/ \A px \in Pixels(g_regs'), c \in 0 .. 2 :
                    mem'[DstAt(g_regs', px) + c] = mem'[SrcAt(g_regs', px) + c]
           /\ \A a \in MemAddrs \ DstBytes(g_regs') : mem'[a] = mem[a]]_vars

(***************************************************************************)
(* C5 amended: the same, provided no source byte read as a channel (bytes  *)
(* 0, 1, 2 of a source pixel) is also a destination byte of the transfer;  *)
(* the destination bytes then equal the source bytes, which the transfer   *)
(* leaves as they were.                                                    *)
(***************************************************************************)
C5_TransferCopiesDisjointPixels ==
    [][(Triggered /\ TIfmt(g_regs') = RGBA8 /\ TOfmt(g_regs') = RGB8
        /\ SourceBacked(g_regs') /\ DestBacked(g_regs')
        /\ SrcBytes(g_regs', 3) \cap DstBytes(g_regs') = {})
        => /\ ~fatal'
           /\ \A px \in Pixels(g_regs'), c \in 0 .. 2 :
                /\ mem'[DstAt(g_regs', px) + c] = mem[SrcAt(g_regs', px) + c]
                /\ mem'[SrcAt(g_regs', px) + c] = mem[SrcAt(g_regs', px) + c]
           /\ \A a \in MemAddrs \ DstBytes(g_regs') : mem'[a] = mem[a]]_vars

\* A 2 x 2 transfer from [8, 24) to [24, 36) has run: four pixels of three bytes.
C5_Witness ==
    /\ call.op = "Write" /\ call.addr = AddrOf(DT_TRIGGER) /\ call.data = U32(1)
    /\ nops = 1
    /\ TIfmt(g_regs) = RGBA8 /\ TOfmt(g_regs) = RGB8
    /\ TSrc(g_regs) = 8 /\ TDst(g_regs) = 24
    /\ TOw(g_regs) = 2 /\ TOh(g_regs) = 2 /\ TIw(g_regs) = 2
    /\ events = <<<<"DisplayTriggerTransfer">>>>
    /\ \A px \in Pixels(g_regs), c \in 0 .. 2 :
            mem[DstAt(g_regs, px) + c] = InitMem[SrcAt(g_regs, px) + c]
    /\ mem[27] = InitMem[12] /\ mem[36] = InitMem[36]

(***************************************************************************)
(* C6: a transfer triggered with an output format other than RGB8 changes  *)
(* no byte of memory, for every input format and output size, and (its     *)
(* source pixels being readable) runs to completion.                       *)
(***************************************************************************)
C6_UnknownOutputWritesNothing ==
    [][(Triggered /\ TOfmt(g_regs') # RGB8)
        => /\ mem' = mem
           /\ (TIfmt(g_regs') # RGBA8 \/ SourceBacked(g_regs'))
                => (~fatal' /\ events' = <<<<"DisplayTriggerTransfer">>>>)]_vars

\* A 2 x 2 transfer with an unknown output format has completed over the
\* destination [24, 36) and left memory as it was.
C6_Witness ==
    /\ call.op = "Write" /\ call.addr = AddrOf(DT_TRIGGER) /\ call.data = U32(1)
    /\ TOfmt(g_regs) = RGBA8
    /\ TIfmt(g_regs) \in {RGBA8, RGB8}
    /\ TOw(g_regs) = 2 /\ TOh(g_regs) = 2 /\ TDst(g_regs) = 24
    /\ events = <<<<"DisplayTriggerTransfer">>>>
    /\ errors > 0
    /\ mem = InitMem

(***************************************************************************)
(* C7: a completed transfer of at least one pixel that meets an            *)
(* unsupported input or output format records exactly one error for the    *)
(* whole transfer.                                                         *)
(***************************************************************************)
C7_OneErrorPerTransfer ==
    [][(Triggered /\ (TIfmt(g_regs') # RGBA8 \/ TOfmt(g_regs') # RGB8)
        /\ Pixels(g_regs') # {} /\ ~fatal')
        => errors' = 1]_vars

(***************************************************************************)
(* SpecTiming: Update() under arbitrary tick progress and height writes    *)
(***************************************************************************)
MaxTimingOps == 5                 \* operations per run of SpecTiming

\* A refresh rate that makes a frame 19 cycles, 6 ticks, long.
FastRate == 268123480 \div 19

\* Tick steps between calls, relative to the frame period.
TimingSteps == {0, 1, kFrameTicks \div 2, kFrameTicks + 1}

InitTiming == \E rate \in {60, FastRate} : InitState(rate, 0, InitRegs)

TimingAdvance ==
    nops < MaxTimingOps /\ \E e \in TimingSteps, rs \in BOOLEAN : Update(e, rs)

\* The guest changes the primary framebuffer height.
TimingResize ==
    nops < MaxTimingOps
    /\ \E h \in {0, 2, 3} : Write(AddrOf(FRAMEBUFFER_TOP_SIZE), 32, Word(h, 240))

NextTiming == TimingAdvance \/ TimingResize

SpecTiming == InitTiming /\ [][NextTiming]_vars

(***************************************************************************)
(* SpecCycle: a constant height H and rescheduled Update() calls, each at  *)
(* least one line period after the previous one                            *)
(***************************************************************************)
MaxCycleCalls == 401              \* calls per run of SpecCycle

\* <<refresh rate, H>>: the 60 Hz, 400 line default and short frames.
CycleSetups == {<<60, 400>>, <<FastRate, 1>>, <<FastRate, 2>>, <<FastRate, 3>>}

InitCycle ==
    \E c \in CycleSetups :
        InitState(c[1], 0, Programmed(FRAMEBUFFER_TOP_SIZE :> Word(c[2], 240)))

SlackHorizon == 24                \* tick count up to which a call may come late

\* A call exactly one line period after the previous one or, early in the run,
\* one tick later.
QualifyingAdvance ==
    /\ nops < MaxCycleCalls
    /\ LET period == kFrameTicks \div FramebufferHeight(g_regs)
       IN  \E e \in IF ticks < SlackHorizon THEN {period, period + 1} ELSE {period} :
               Update(e, TRUE)

NextCycle == QualifyingAdvance

SpecCycle == InitCycle /\ [][NextCycle]_vars

\* Number of occurrences of the signal `name` among the events of the last operation.
Emitted(name) == Cardinality({i \in DOMAIN events : events[i] = <<name>>})

(***************************************************************************)
(* C8: from scanline counter 0 with height H constant, H rescheduled calls *)
(* each at least a line period after the previous one emit one PDC0 each   *)
(* and a single PDC1, on the H-th call, which returns the counter to 0;    *)
(* so at 60 Hz with H = 400 and steps of 3723 ticks.  (Stated for every    *)
(* round: n calls emit n PDC0 and n / H PDC1.)                             *)
(***************************************************************************)
C8_ScanlineCycle ==
    LET H == Hi(g_regs[FRAMEBUFFER_TOP_SIZE])
    IN  /\ pdc0_total = nops
        /\ pdc1_total = nops \div H
        /\ g_cur_line = nops % H
        /\ nops < H => pdc1_total = 0
        /\ nops = H => (pdc0_total = H /\ pdc1_total = 1 /\ g_cur_line = 0)
        /\ call.op = "Update"
            => /\ Emitted("PDC0") = 1
               /\ Emitted("PDC1") = (IF nops % H = 0 THEN 1 ELSE 0)

\* The 400th step of 3723 ticks at 60 Hz: 400 PDC0 so far and the first PDC1.
C8_Witness ==
    /\ kFrameTicks = 1489574 /\ Hi(g_regs[FRAMEBUFFER_TOP_SIZE]) = 400
    /\ nops = 400 /\ ticks = 400 * 3723
    /\ pdc0_total = 400 /\ pdc1_total = 1 /\ g_cur_line = 0
    /\ Emitted("PDC0") = 1 /\ Emitted("PDC1") = 1

(***************************************************************************)
(* C9: an Update() call without a reschedule emits no PDC0 and no PDC1 and *)
(* leaves the scanline counter and the last-line tick count alone, however *)
(* far the ticks have gone; it may still swap buffers.                     *)
(***************************************************************************)
C9_NoSignalWithoutReschedule ==
    [][(Ran("Update") /\ ~call'.resched)
        => /\ \A i \in DOMAIN events' : events'[i] \notin {<<"PDC0">>, <<"PDC1">>}
           /\ pdc0_total' = pdc0_total /\ pdc1_total' = pdc1_total
           /\ g_cur_line' = g_cur_line
           /\ g_last_line_ticks' = g_last_line_ticks
           /\ ~fatal']_vars

\* A call without reschedule, more than a frame after the last line, that swapped.
C9_Witness ==
    /\ call.op = "Update" /\ ~call.resched
    /\ ticks - g_last_line_ticks > kFrameTicks
    /\ events = <<<<"SwapBuffers">>>>
    /\ pdc0_total = 0

(***************************************************************************)
(* C10: an Update() call swaps buffers exactly once if current_ticks -     *)
(* last_frame_ticks > frame_period_ticks and not at all otherwise; a swap  *)
(* sets last_frame_ticks to current_ticks, and an Update() that directly   *)
(* follows an Update() at the same tick count does not swap.               *)
(***************************************************************************)
C10_SwapIffFrameElapsed ==
    [][Ran("Update")
        => /\ IF ticks' - g_last_frame_ticks > kFrameTicks
              THEN /\ Cardinality({i \in DOMAIN events' : events'[i] = <<"SwapBuffers">>}) = 1
                   /\ swap_total' = swap_total + 1
                   /\ g_last_frame_ticks' = ticks'
              ELSE /\ \A i \in DOMAIN events' : events'[i] # <<"SwapBuffers">>
                   /\ swap_total' = swap_total
                   /\ g_last_frame_ticks' = g_last_frame_ticks
           /\ (call.op = "Update" /\ ticks' = ticks) => swap_total' = swap_total]_vars

\* A second call at the tick count of a call that swapped: still one swap; and the
\* swap came only after the period was exceeded, not when it was just reached.
C10_Witness ==
    /\ call.op = "Update" /\ call.data = U32(0)
    /\ swap_total = 1
    /\ g_last_frame_ticks = ticks
    /\ ticks = 2 * (kFrameTicks \div 2) + 1
    /\ nops = 4
    /\ events = <<>>

(***************************************************************************)
(* SpecInit: Init() under several refresh rates and start-up tick counts,  *)
(* followed by the first operations                                        *)
(***************************************************************************)
MaxInitOps == 2                   \* operations per run of SpecInit

InitRates == {0, 1, 30, 59, 60, FastRate}
InitTicks == {0, 7, 1000}

InitAny == \E rate \in InitRates, t0 \in InitTicks : InitState(rate, t0, InitRegs)

FirstAdvance ==
    nops < MaxInitOps /\ \E e \in TimingSteps, rs \in BOOLEAN : Update(e, rs)

\* The guest reads back the framebuffer geometry.
FirstRead ==
    nops < MaxInitOps
    /\ \E i \in {FRAMEBUFFER_TOP_SIZE, FRAMEBUFFER_SUB_SIZE} : Read(AddrOf(i), 32)

NextInit == FirstAdvance \/ FirstRead

SpecInit == InitAny /\ [][NextInit]_vars

\* The refresh rate Init() was called with.
RateOf(c) == Hi(c.data) * W16 + Lo(c.data)

(***************************************************************************)
(* C11: Init() sets frame_period_cycles = 268123480 / refresh_rate and     *)
(* frame_period_ticks = frame_period_cycles / 3, both truncated, the       *)
(* scanline counter to 0, both tick timestamps to the current tick count,  *)
(* the primary height to 400 and the secondary to 320; at 60 Hz the        *)
(* periods are 4468724 cycles, 1489574 ticks and 3723 ticks per line.      *)
(***************************************************************************)
C11_InitValues ==
    (call.op = "Init" /\ RateOf(call) # 0)
    => /\ kFrameCycles * RateOf(call) <= 268123480
       /\ 268123480 - kFrameCycles * RateOf(call) < RateOf(call)
       /\ kFrameTicks * 3 <= kFrameCycles /\ kFrameCycles - kFrameTicks * 3 < 3
       /\ g_cur_line = 0
       /\ g_last_frame_ticks = ticks /\ g_last_line_ticks = ticks
       /\ Hi(g_regs[FRAMEBUFFER_TOP_SIZE]) = 400
       /\ Hi(g_regs[FRAMEBUFFER_SUB_SIZE]) = 320
       /\ ~fatal
       /\ RateOf(call) = 60
            => /\ kFrameCycles = 4468724
               /\ kFrameTicks = 1489574
               /\ kFrameTicks \div Hi(g_regs[FRAMEBUFFER_TOP_SIZE]) = 3723

\* Init() at 60 Hz with the tick count at 1000.
C11_Witness ==
    /\ call.op = "Init" /\ RateOf(call) = 60
    /\ ticks = 1000 /\ g_last_frame_ticks = 1000 /\ g_last_line_ticks = 1000
    /\ kFrameTicks = 1489574
    /\ nops = 0

(***************************************************************************)
(* C12: in every state reachable after Init() by register writes (the      *)
(* primary framebuffer height included) and Update() calls with either     *)
(* value of the reschedule flag, 0 <= scanline counter < primary height.   *)
(***************************************************************************)
C12_LineBelowHeight ==
    0 <= g_cur_line /\ g_cur_line < Hi(g_regs[FRAMEBUFFER_TOP_SIZE])

\* The counter has advanced to 3 under a non-zero height when the guest lowers the
\* height to 2.
C12_LoweredHeight ==
    /\ call.op = "Write" /\ IndexOf(call) = FRAMEBUFFER_TOP_SIZE
    /\ Hi(g_regs[FRAMEBUFFER_TOP_SIZE]) = 2
    /\ g_cur_line = 3
    /\ ~fatal

(***************************************************************************)
(* SpecCommand: the command processor registers                            *)
(***************************************************************************)
MaxCommandOps == 2                \* operations per run of SpecCommand

\* A size whose top three bits are lost by the shift, 0x20000001.
WideSize == Word(8192, 1)

\* command_processor_config as the guest programmed it: a buffer address that is
\* unset, inside the mapped memory or past it, and a size.
CommandConfigs ==
    {Programmed(CP_ADDRESS :> U32(a) @@ CP_SIZE :> sz) :
        a \in {0, 1, 2, MemBlocks + 2}, sz \in {Zero, U32(3), WideSize, FillWord}}

InitCommand == \E regs \in CommandConfigs : InitState(60, 0, regs)

\* The guest writes the trigger register.
CommandTrigger ==
    nops < MaxCommandOps
    /\ \E d \in {U32(0), U32(1), U32(2), U32(3)} : Write(AddrOf(CP_TRIGGER), 32, d)

\* The guest writes any other register.
CommandOther ==
    nops < MaxCommandOps
    /\ \E i \in RegIds \ {CP_TRIGGER}, d \in {U32(1), U32(2)} : Write(AddrOf(i), 32, d)

\* The guest reads the trigger register back; time passes.
CommandIdle ==
    nops < MaxCommandOps
    /\ \/ Read(AddrOf(CP_TRIGGER), 32)
       \/ \E rs \in BOOLEAN : Update(1, rs)

NextCommand == CommandTrigger \/ CommandOther \/ CommandIdle

SpecCommand == InitCommand /\ [][NextCommand]_vars

\* w << 3 in 32 bits.
TimesEight(w) == Word((Hi(w) * 8 + Lo(w) \div 8192) % 65536, (Lo(w) * 8) % 65536)

\* The host buffer of the physical address 8 * a, 0 for none.
Resolve(a) ==
    IF Hi(TimesEight(a)) = 0 /\ Lo(TimesEight(a)) \in MemAddrs THEN Lo(TimesEight(a)) ELSE 0

\* The command lists handed to the command processor during the last operation.
Commands(ev) == {i \in DOMAIN ev : ev[i][1] = "ProcessCommandList"}

(***************************************************************************)
(* C13: a 32-bit write to the command-processor trigger register with bit  *)
(* 0 of the value set invokes the command processor exactly once during    *)
(* the write, with the buffer resolved from the configured address and     *)
(* size = (size field << 3) in 32 bits; with bit 0 clear it is not         *)
(* invoked, and no other operation invokes it.                             *)
(***************************************************************************)
C13_CommandDispatch ==
    [][nops' = nops + 1
       => IF /\ Ran("Write") /\ InRange(call') /\ IndexOf(call') = CP_TRIGGER
             /\ Lo(call'.data) % 2 = 1
          THEN /\ events' = <<<<"ProcessCommandList", Resolve(g_regs[CP_ADDRESS]),
                                TimesEight(g_regs[CP_SIZE])>>>>
               /\ ~fatal'
          ELSE Commands(events') = {}]_vars

\* A list at host address 16 dispatched with size 0x20000001 << 3 = 8.
C13_Witness ==
    /\ call.op = "Write" /\ IndexOf(call) = CP_TRIGGER /\ call.data = U32(3)
    /\ g_regs[CP_SIZE] = WideSize /\ g_regs[CP_ADDRESS] = U32(2)
    /\ events = <<<<"ProcessCommandList", 16, Word(0, 8)>>>>

(***************************************************************************)
(* C14: a triggered memory fill whose start address or end address         *)
(* translates to no host buffer is a no-op: no memory is written and no    *)
(* fatal state is reached.                                                 *)
(***************************************************************************)
C14_UnresolvedFillIsNoOp ==
    [][\A u \in {0, 1} :
        (/\ Ran("Write") /\ InRange(call') /\ IndexOf(call') = FillValueIdx(u)
         /\ g_regs'[FillStartIdx(u)] # Zero
         /\ ~FillResolves(g_regs', u))
        => mem' = mem /\ ~fatal']_vars

\* Unit 0 was triggered with a start past the mapped memory and its end inside:
\* the first store went through the null pointer.
C14_StoreThroughNull ==
    /\ call.op = "Write" /\ IndexOf(call) = FillValueIdx(0)
    /\ g_regs[FillStartIdx(0)] = U32(MemBlocks + 2)
    /\ g_regs[FillEndIdx(0)] = U32(3)
    /\ fatal

(***************************************************************************)
(* C15: no sequence of Init(), register reads and writes with guest-chosen *)
(* values and Update() calls reaches a fatal condition; the divisions by   *)
(* the primary framebuffer height and by the refresh rate never have a     *)
(* zero divisor.                                                           *)
(***************************************************************************)
C15_NeverFatal == ~fatal

\* Update() ran with the reschedule flag set while the primary height was 0.
C15_DivisionByZeroHeight ==
    /\ call.op = "Update" /\ call.resched
    /\ Hi(g_regs[FRAMEBUFFER_TOP_SIZE]) = 0
    /\ fatal

(***************************************************************************)
(* SpecDispatch: 32-bit writes to every register word while both fill      *)
(* units, the display transfer and the command processor are set up        *)
(***************************************************************************)
MaxDispatchOps == 2               \* operations per run of SpecDispatch

\* Unit 0 fills [8, 24), unit 1 fills [16, 32); the transfer converts one RGBA8
\* pixel at 8 to RGB8 at 24; the command list is at 8 with size field 3.
DispatchSetup ==
    Programmed(FillStartIdx(0) :> U32(1) @@ FillEndIdx(0) :> U32(3)
               @@ FillStartIdx(1) :> U32(2) @@ FillEndIdx(1) :> U32(4)
               @@ DT_INPUT_ADDRESS :> U32(1) @@ DT_OUTPUT_ADDRESS :> U32(3)
               @@ DT_OUTPUT_SIZE :> Word(1, 1) @@ DT_INPUT_SIZE :> Word(1, 1)
               @@ DT_FLAGS :> Flags(RGBA8, RGB8)
               @@ CP_ADDRESS :> U32(1) @@ CP_SIZE :> U32(3))

InitDispatch == InitState(60, 0, DispatchSetup)

\* The guest writes 1, 2 or 3 to any register word.
DispatchWrite ==
    nops < MaxDispatchOps
    /\ \E i \in RegIds, d \in {U32(1), U32(2), U32(3)} : Write(AddrOf(i), 32, d)

NextDispatch == DispatchWrite

SpecDispatch == InitDispatch /\ [][NextDispatch]_vars

\* The handler whose completion is recorded in ev, by the index it is bound to.
HandlerIds(ev) ==
    {i \in TriggerIds :
        \E k \in DOMAIN ev :
            \/ i = FillValueIdx(0) /\ ev[k] = <<"MemoryFill", 0>>
            \/ i = FillValueIdx(1) /\ ev[k] = <<"MemoryFill", 1>>
            \/ i = DT_TRIGGER /\ ev[k] = <<"DisplayTriggerTransfer">>
            \/ i = CP_TRIGGER /\ ev[k][1] = "ProcessCommandList"}

(***************************************************************************)
(* C16: an accepted 32-bit write fires at most one handler, and only the   *)
(* one bound to the written index, which is then one of the four trigger   *)
(* indices; a write to any other valid index changes exactly that register *)
(* word, writes no guest memory and invokes no command processing, no swap *)
(* and no interrupt.                                                       *)
(***************************************************************************)
C16_OneHandlerOnlyAtTriggers ==
    [][(Ran("Write") /\ InRange(call'))
       => /\ Len(events') <= 1
          /\ HandlerIds(events') \subseteq {IndexOf(call')}
          /\ events' # <<>> => HandlerIds(events') # {}
          /\ IndexOf(call') \notin TriggerIds
               => /\ g_regs' = [g_regs EXCEPT ![IndexOf(call')] = call'.data]
                  /\ mem' = mem
                  /\ events' = <<>>
                  /\ ~fatal'
                  /\ timing' = timing]_vars

\* Unit 0 filled [8, 24) with the pattern 1; the later write that moved its start
\* to 16 ran nothing.
C16_Witness ==
    /\ call.op = "Write" /\ IndexOf(call) = FillStartIdx(0) /\ call.data = U32(2)
    /\ g_regs[FillStartIdx(0)] = U32(2) /\ g_regs[FillValueIdx(0)] = U32(1)
    /\ \A p \in {8, 12, 16, 20} : LoadWord(mem, p) = Word(256, 0)
    /\ events = <<>>
    /\ nops = 2

(***************************************************************************)
(* C17: no register read or write, accepted or refused, triggering or not, *)
(* changes the scanline counter, the last-line and last-frame timestamps   *)
(* or the frame-period constants; no Update() changes a register word or   *)
(* guest memory.                                                           *)
(***************************************************************************)
C17_TimingAndRegistersDisjoint ==
    [][/\ (Ran("Read") \/ Ran("Write"))
            => /\ g_cur_line' = g_cur_line
               /\ g_last_line_ticks' = g_last_line_ticks
               /\ g_last_frame_ticks' = g_last_frame_ticks
               /\ kFrameCycles' = kFrameCycles
               /\ kFrameTicks' = kFrameTicks
       /\ Ran("Update") => g_regs' = g_regs /\ mem' = mem]_vars

\* A fill ran after Update() had counted a scanline and swapped a frame.
C17_Witness ==
    /\ call.op = "Write" /\ InRange(call) /\ IndexOf(call) = FillValueIdx(0)
    /\ events = <<<<"MemoryFill", 0>>>>
    /\ mem # InitMem
    /\ g_cur_line = 1 /\ g_last_line_ticks = 1489575 /\ g_last_frame_ticks = 1489575

(***************************************************************************)
(* C18: a transfer triggered with an input format other than RGBA8 and the *)
(* output format RGB8 (its destination pixels in host memory) runs to      *)
(* completion and leaves the three bytes of every destination pixel 0,     *)
(* whatever the source address and the source bytes are; no other byte     *)
(* changes.                                                                *)
(***************************************************************************)
C18_UnknownInputWritesBlack ==
    [][(Triggered /\ TIfmt(g_regs') # RGBA8 /\ TOfmt(g_regs') = RGB8
        /\ DestBacked(g_regs'))
        => /\ ~fatal'
           /\ events' = <<<<"DisplayTriggerTransfer">>>>
           /\ \A a \in DstBytes(g_regs') : mem'[a] = 0
           /\ \A a \in MemAddrs \ DstBytes(g_regs') : mem'[a] = mem[a]]_vars

\* A 2 x 2 transfer from an RGB8 source that translates to no host buffer has
\* blackened the twelve bytes at [24, 36).
C18_Witness ==
    /\ call.op = "Write" /\ call.addr = AddrOf(DT_TRIGGER) /\ call.data = U32(1)
    /\ TIfmt(g_regs) = RGB8 /\ TOfmt(g_regs) = RGB8
    /\ g_regs[DT_INPUT_ADDRESS] = Zero
    /\ TOw(g_regs) = 2 /\ TOh(g_regs) = 2 /\ TDst(g_regs) = 24
    /\ events = <<<<"DisplayTriggerTransfer">>>>
    /\ \A a \in 24 .. 35 : mem[a] = 0
    /\ \A a \in MemAddrs \ (24 .. 35) : mem[a] = InitMem[a]

\* The positions of the signal `name` among those of the last operation.
Positions(ev, name) == {i \in DOMAIN ev : ev[i] = <<name>>}

Filled(m, ws, v) ==
    [a \in MemAddrs |->
        IF \E p \in ws : a \in p .. (p + 3)
        THEN LET c == (a - CHOOSE p \in ws : a \in p .. (p + 3)) % 4
                 w == ByteReverse(v)
             IN  IF c = 0 THEN Lo(w) % 256
                 ELSE IF c = 1 THEN Lo(w) \div 256
                 ELSE IF c = 2 THEN Hi(w) % 256
                 ELSE Hi(w) \div 256
        ELSE m[a]]

(***************************************************************************)
(* C20: a write to the value register of fill unit u changes no register   *)
(* word but that one and no memory outside [start, end) of unit u; with    *)
(* end <= start and a non-zero start it writes no memory; the memory after *)
(* the write is a function of the memory before it and of unit u's start,  *)
(* end and value words alone, so the unit's size register has no influence.*)
(***************************************************************************)
C20_FillFrame ==
    [][\A u \in {0, 1} :
        (Ran("Write") /\ InRange(call') /\ IndexOf(call') = FillValueIdx(u))
        => /\ g_regs' = [g_regs EXCEPT ![FillValueIdx(u)] = call'.data]
           /\ mem' = IF g_regs[FillStartIdx(u)] # Zero /\ FillResolves(g_regs, u)
                     THEN Filled(mem, FillRange(g_regs, u), call'.data)
                     ELSE mem
           /\ \A a \in MemAddrs :
                ~(Lo(TimesEight(g_regs[FillStartIdx(u)])) <= a
                  /\ a < Lo(TimesEight(g_regs[FillEndIdx(u)])))
                => mem'[a] = mem[a]
           /\ (/\ g_regs[FillStartIdx(u)] # Zero
               /\ Lo(TimesEight(g_regs[FillEndIdx(u)]))
                    <= Lo(TimesEight(g_regs[FillStartIdx(u)])))
              => mem' = mem]_vars

\* Unit 1 filled exactly [16, 32) after the guest had set its size register to
\* 0xA1B2C3D4; unit 0 is set up for [8, 24).
C20_Witness ==
    /\ call.op = "Write" /\ IndexOf(call) = FillValueIdx(1) /\ call.data = OtherWord
    /\ g_regs[FillSizeIdx(1)] = FillWord
    /\ g_regs[FillStartIdx(1)] = U32(2) /\ g_regs[FillEndIdx(1)] = U32(4)
    /\ g_regs[FillStartIdx(0)] = U32(1) /\ g_regs[FillEndIdx(0)] = U32(3)
    /\ \A p \in {16, 20, 24, 28} : LoadWord(mem, p) = Word(513, 0)
    /\ \A a \in (8 .. 15) \cup (32 .. 39) : mem[a] = InitMem[a]

=============================================================================
